---- MODULE Spec2Model ----
(***************************************************************************)
(* Model of msa_sdk.msa_api.MSA_API and of the Order methods in            *)
(* msa_sdk.order that call it: the request/response lifecycle wrapper, the *)
(* envelope encoder process_content, the task completion protocol and the  *)
(* trace header propagation over the process-wide ambient context.         *)
(*                                                                         *)
(* Texts (JSON documents, response bodies, log lines) are sequences of     *)
(* tokens <<kind, text>>: "p" is one of { } [ ] , :   "ws" is white space, *)
(* "s" a quoted string literal (text: the string it denotes), "n" an       *)
(* integer numeral, "k" one of true false null, and "w" a run of           *)
(* characters that is not JSON.  Python values are records [t, s, d]: t    *)
(* the type, s the text of a str, int or bool, d the items of a dict (in   *)
(* insertion order, <<key, value>>) or of a list (<<"", item>>), each item *)
(* value again such a record.  The numbers of the model are integers, the  *)
(* characters of its strings ASCII.                                        *)
(***************************************************************************)
EXTENDS Integers, Sequences, FiniteSets, TLC

\* ------------------------------------------------------------ bounds
\* Number of HTTP requests one run issues.
MaxCalls == 2
\* Number of records the logger receives from direct calls.
MaxLog == 2
\* random.randrange draws trace ids and span ids from 1..MaxRand.
MaxRand == 2

\* ------------------------------------------------------------ Python values
PyStr(x) == [t |-> "str", s |-> x, d |-> <<>>]
PyInt(n) == [t |-> "int", s |-> ToString(n), d |-> <<>>]
PyBool(b) == [t |-> "bool", s |-> IF b THEN "true" ELSE "false", d |-> <<>>]
PyDict(items) == [t |-> "dict", s |-> "", d |-> items]
PyList(items) == [t |-> "list", s |-> "", d |-> [i \in 1..Len(items) |-> <<"", items[i]>>]]
\* self.__class__, the value __init__ leaves in self.action
PyClass == [t |-> "class", s |-> "MSA_API", d |-> <<>>]
PyNone == [t |-> "none", s |-> "", d |-> <<>>]

\* constants.ENDED ... constants.PAUSED as MSA_API re-exports them, with the
\* status ids the docstring of process_content gives
ENDED == "ENDED"
FAILED == "FAIL"
RUNNING == "RUNNING"
WARNING == "WARNING"
PAUSED == "PAUSE"
Statuses == {ENDED, FAILED, RUNNING, WARNING, PAUSED}

\* The value of an expression, or the exception its evaluation raises
Parsed(e, v) == [err |-> e, val |-> v]

\* 'key' in d   for a dict d
HasKey(v, k) == \E i \in 1..Len(v.d) : v.d[i][1] = k
\* d[key]   for a dict d that has the key
GetKey(v, k) == v.d[CHOOSE i \in 1..Len(v.d) : v.d[i][1] = k][2]
\* del d[key]   for a dict d
DelKey(v, k) == PyDict(SelectSeq(v.d, LAMBDA e : e[1] # k))
\* d[key] = x   for a dict d: a key the dict holds keeps its place
SetKey(v, k, x) ==
    IF HasKey(v, k)
    THEN PyDict([i \in 1..Len(v.d) |-> IF v.d[i][1] = k THEN <<k, x>> ELSE v.d[i]])
    ELSE PyDict(Append(v.d, <<k, x>>))
\* copy.deepcopy(x): a new object with the same value
deepcopy(v) == v

\* sub in s   for two str: sub occurs in s at some position
StrContains(s, sub) ==
    \E i \in 1..(Len(s) - Len(sub) + 1) : SubSeq(s, i, i + Len(sub) - 1) = sub

\* key in v: a key of a dict, an item of a list, a substring of a str;
\* TypeError for a value that is not iterable (None, an int, a class)
Contains(v, k) ==
    CASE v.t = "dict" -> Parsed("", HasKey(v, k))
      [] v.t = "list" -> Parsed("", \E i \in 1..Len(v.d) : v.d[i][2] = PyStr(k))
      [] v.t = "str" -> Parsed("", StrContains(v.s, k))
      [] OTHER -> Parsed("TypeError", FALSE)

\* del v[key]   with a str key: only a dict supports it (a list wants an
\* integer index, a str is immutable)
Delete(v, k) ==
    IF v.t = "dict" THEN Parsed("", DelKey(v, k)) ELSE Parsed("TypeError", v)

\* v[key]   with a str key: the value under the key of a dict; KeyError when
\* the dict has no such key; TypeError when v is a list, a str, a number or
\* None.
Subscript(v, k) ==
    CASE v.t = "dict" /\ HasKey(v, k) -> Parsed("", GetKey(v, k))
      [] v.t = "dict" -> Parsed("KeyError", PyNone)
      [] OTHER -> Parsed("TypeError", PyNone)

\* The characters of a str
Chars(s) == [i \in 1..Len(s) |-> SubSeq(s, i, i)]

IsDigit(ch) == \E d \in 0..9 : ToString(d) = ch
DigitOf(ch) == CHOOSE d \in 0..9 : ToString(d) = ch
\* White space as int() strips it from an ASCII str: space, \t, \n, \r, \f
\* and the vertical tab (0x0b)
IsSpace(ch) == ch \in {" ", "\t", "\n", "\r", "\f", ""}

RECURSIVE Strip(_)
\* str.strip(): without the white space at both ends
Strip(cs) ==
    IF Len(cs) = 0 THEN cs
    ELSE IF IsSpace(cs[1]) THEN Strip(Tail(cs))
    ELSE IF IsSpace(cs[Len(cs)]) THEN Strip(SubSeq(cs, 1, Len(cs) - 1))
    ELSE cs

RECURSIVE DigitsValue(_, _, _)
\* The number the digits from cs[i] on denote, acc being the value of those
\* before; one underscore may stand between two digits; -1 when the
\* characters are not such a numeral
DigitsValue(cs, i, acc) ==
    IF i > Len(cs) \/ ~IsDigit(cs[i]) THEN -1
    ELSE LET v == 10 * acc + DigitOf(cs[i])
         IN IF i = Len(cs) THEN v
            ELSE IF cs[i + 1] = "_" THEN DigitsValue(cs, i + 2, v)
            ELSE DigitsValue(cs, i + 1, v)

\* int(v): an int as it is, a bool as 0 or 1; a str is stripped of white
\* space and read as an optional sign and decimal digits (leading zeros and
\* single underscores between digits allowed), ValueError otherwise;
\* TypeError for None, a dict or a list
int(v) ==
    CASE v.t = "int" -> Parsed("", v)
      [] v.t = "bool" -> Parsed("", PyInt(IF v.s = "true" THEN 1 ELSE 0))
      [] v.t = "str" ->
            LET cs == Strip(Chars(v.s))
                signed == Len(cs) > 0 /\ cs[1] \in {"+", "-"}
                digits == IF signed THEN Tail(cs) ELSE cs
                n == DigitsValue(digits, 1, 0)
            IN IF n < 0 THEN Parsed("ValueError", PyNone)
               ELSE IF signed /\ cs[1] = "-" THEN Parsed("", PyInt(0 - n))
               ELSE Parsed("", PyInt(n))
      [] OTHER -> Parsed("TypeError", PyNone)

\* ------------------------------------------------------------ json
Tok(k, x) == <<k, x>>
NoText == <<>>
Result(e, x) == [err |-> e, text |-> x]

RECURSIVE Spaces(_)
Spaces(n) == IF n = 0 THEN "" ELSE " " \o Spaces(n - 1)
\* The line break json.dumps(indent=4) writes before an item at the depth
Newline(depth) == <<Tok("ws", "\n" \o Spaces(4 * depth))>>

RECURSIVE Dumps(_, _, _)
RECURSIVE DumpItems(_, _, _, _, _)
\* The items of a dict or list from index i on.  Without indent the items are
\* separated by ", ", with indent by "," and a line break; a key is followed
\* by ": ".
DumpItems(items, i, pretty, depth, isDict) ==
    IF i > Len(items) THEN Result("", <<>>)
    ELSE LET head == Dumps(items[i][2], pretty, depth)
             rest == DumpItems(items, i + 1, pretty, depth, isDict)
             key == IF isDict
                    THEN <<Tok("s", items[i][1]), Tok("p", ":"), Tok("ws", " ")>>
                    ELSE <<>>
             sep == IF i = Len(items) THEN <<>>
                    ELSE <<Tok("p", ",")>>
                         \o (IF pretty THEN Newline(depth) ELSE <<Tok("ws", " ")>>)
         IN IF head.err # "" THEN head
            ELSE IF rest.err # "" THEN rest
            ELSE Result("", key \o head.text \o sep \o rest.text)

\* json.dumps(v) at a nesting depth, with indent=4 (pretty) or without.  An
\* empty dict or list is written {} or [] in both forms.  A class object is
\* not JSON serializable: TypeError.
Dumps(v, pretty, depth) ==
    CASE v.t = "str" -> Result("", <<Tok("s", v.s)>>)
      [] v.t = "int" -> Result("", <<Tok("n", v.s)>>)
      [] v.t = "bool" -> Result("", <<Tok("k", v.s)>>)
      [] v.t = "none" -> Result("", <<Tok("k", "null")>>)
      [] v.t \in {"dict", "list"} ->
            LET isDict == v.t = "dict"
                open == <<Tok("p", IF isDict THEN "{" ELSE "[")>>
                close == <<Tok("p", IF isDict THEN "}" ELSE "]")>>
                inner == DumpItems(v.d, 1, pretty, depth + 1, isDict)
            IN IF Len(v.d) = 0 THEN Result("", open \o close)
               ELSE IF inner.err # "" THEN inner
               ELSE IF pretty
                    THEN Result("", open \o Newline(depth + 1) \o inner.text
                                    \o Newline(depth) \o close)
                    ELSE Result("", open \o inner.text \o close)
      [] OTHER -> Result("TypeError", NoText)

json_dumps(v) == Dumps(v, FALSE, 0)
json_dumps_indent(v) == Dumps(v, TRUE, 0)

\* A step of the decoder: the value read and the index after it
At(v, n) == [err |-> "", val |-> v, next |-> n]
Fail == [err |-> "ValueError", val |-> PyNone, next |-> 0]

RECURSIVE ParseValue(_, _)
RECURSIVE ParseMembers(_, _, _)
RECURSIVE ParseItems(_, _, _)
\* The members of an object from toks[i] on, acc holding those read so far: a
\* repeated key keeps its last value
ParseMembers(toks, i, acc) ==
    IF i + 1 > Len(toks) THEN Fail
    ELSE IF toks[i][1] # "s" \/ toks[i + 1] # Tok("p", ":") THEN Fail
    ELSE LET v == ParseValue(toks, i + 2)
         IN IF v.err # "" THEN Fail
            ELSE IF v.next > Len(toks) THEN Fail
            ELSE IF toks[v.next] = Tok("p", "}")
                 THEN At(SetKey(acc, toks[i][2], v.val), v.next + 1)
            ELSE IF toks[v.next] = Tok("p", ",")
                 THEN ParseMembers(toks, v.next + 1, SetKey(acc, toks[i][2], v.val))
            ELSE Fail

\* The items of an array from toks[i] on
ParseItems(toks, i, acc) ==
    LET v == ParseValue(toks, i)
    IN IF v.err # "" THEN Fail
       ELSE IF v.next > Len(toks) THEN Fail
       ELSE IF toks[v.next] = Tok("p", "]")
            THEN At(PyList(Append(acc, v.val)), v.next + 1)
       ELSE IF toks[v.next] = Tok("p", ",")
            THEN ParseItems(toks, v.next + 1, Append(acc, v.val))
       ELSE Fail

\* The int a JSON numeral denotes: an optional minus sign and decimal
\* digits; -0 denotes 0
Number(numeral) ==
    LET cs == Chars(numeral)
        negative == Len(cs) > 0 /\ cs[1] = "-"
        n == DigitsValue(IF negative THEN Tail(cs) ELSE cs, 1, 0)
    IN PyInt(IF negative THEN 0 - n ELSE n)

\* The JSON value that starts at toks[i]
ParseValue(toks, i) ==
    IF i > Len(toks) THEN Fail
    ELSE CASE toks[i][1] = "s" -> At(PyStr(toks[i][2]), i + 1)
           [] toks[i][1] = "n" -> At(Number(toks[i][2]), i + 1)
           [] toks[i] = Tok("k", "null") -> At(PyNone, i + 1)
           [] toks[i] = Tok("k", "true") -> At(PyBool(TRUE), i + 1)
           [] toks[i] = Tok("k", "false") -> At(PyBool(FALSE), i + 1)
           [] toks[i] = Tok("p", "{") ->
                 IF i + 1 <= Len(toks) /\ toks[i + 1] = Tok("p", "}")
                 THEN At(PyDict(<<>>), i + 2)
                 ELSE ParseMembers(toks, i + 1, PyDict(<<>>))
           [] toks[i] = Tok("p", "[") ->
                 IF i + 1 <= Len(toks) /\ toks[i + 1] = Tok("p", "]")
                 THEN At(PyList(<<>>), i + 2)
                 ELSE ParseItems(toks, i + 1, <<>>)
           [] OTHER -> Fail

\* json.loads(text) / Response.json(): white space between tokens is skipped;
\* the text must hold one JSON value and nothing after it, or ValueError
\* (JSONDecodeError) is raised.  The empty text raises.
json_loads(text) ==
    LET toks == SelectSeq(text, LAMBDA tk : tk[1] # "ws")
        r == ParseValue(toks, 1)
    IN IF r.err = "" /\ r.next = Len(toks) + 1
       THEN Parsed("", r.val)
       ELSE Parsed("ValueError", PyNone)

\* ------------------------------------------------------------ inputs
Clients == {"c1", "c2"}
\* The client that is an Order object
Orders == {"c1"}
\* context['TOKEN'], read once by __init__
TOKEN == "abc"
\* A key the context does not hold
Absent == 0
RandIds == 1..MaxRand

\* Response bodies the server may send
BodyEmpty == NoText
BodyNotJson == <<Tok("w", "Internal Server Error")>>
BodyMessage == json_dumps(PyDict(<<<<"message", PyStr("bad input")>>>>)).text
BodyMessageCode == json_dumps(PyDict(<<<<"message", PyStr("bad input")>>,
                                       <<"code", PyInt(404)>>>>)).text
BodyNoMessage == json_dumps(PyDict(<<<<"error", PyStr("bad input")>>>>)).text
BodyList == json_dumps(PyList(<<PyStr("svc1"), PyStr("svc2")>>)).text
BodyProfile == json_dumps(PyDict(<<<<"ConfigProfileByDevice", PyInt(7)>>>>)).text
BodyProfileText == json_dumps(PyDict(<<<<"ConfigProfileByDevice", PyStr(" +1_2 ")>>>>)).text
\* The body {"ConfigProfileByDevice": -0}
BodyProfileMinusZero ==
    <<Tok("p", "{"), Tok("s", "ConfigProfileByDevice"), Tok("p", ":"), Tok("ws", " "),
      Tok("n", "-0"), Tok("p", "}")>>
Bodies == {BodyEmpty, BodyNotJson, BodyMessage, BodyList}
OrderBodies == {BodyEmpty, BodyNotJson, BodyMessage, BodyMessageCode, BodyNoMessage,
                BodyList, BodyProfile, BodyProfileText, BodyProfileMinusZero}
HttpStatuses == {200, 404}
OrderStatuses == {200, 404, 600}
\* requests.Response.ok: False exactly for a status in 400..599
Ok(status) == ~(400 <= status /\ status < 600)

\* What requests.post/get/put/delete does with a request: raise
\* (RequestException is the base of ConnectionError and Timeout), or return a
\* Response
NetOutcomesOf(statuses, bodies) ==
    {[err |-> e, status |-> 0, text |-> NoText] : e \in {"RequestException"}}
    \cup {[err |-> "", status |-> st, text |-> b] : st \in statuses, b \in bodies}
NetOutcomes == NetOutcomesOf(HttpStatuses, Bodies)
OrderOutcomes == NetOutcomesOf(OrderStatuses, OrderBodies)
ThreadOutcomes == NetOutcomesOf({200}, {BodyList})

\* Bodies a caller passes to _call_post / _call_put
ParamsDict == PyDict(<<<<"object_id", PyStr("12")>>>>)
PostData == {PyNone, ParamsDict, PyStr("object_id=12")}
PutData == {ParamsDict}
\* params of the Order commands, mservice_uris
OrderParams == {ParamsDict, PyStr("object_id=12")}
ServiceUris == PyList(<<PyStr("svc1"), PyStr("svc2")>>)

\* Arguments of process_content, task_success and task_error
Comments == {PyStr("done"), PyClass}
ParamsWithToken == PyDict(<<<<"TOKEN", PyStr(TOKEN)>>, <<"x", PyInt(1)>>>>)
ParamsNoToken == PyDict(<<<<"x", PyInt(1)>>>>)
\* The token also under a nested TOKEN key
ParamsNestedToken == PyDict(<<<<"TOKEN", PyStr(TOKEN)>>,
                              <<"a", PyDict(<<<<"TOKEN", PyStr(TOKEN)>>>>)>>>>)
\* The token also as the value of another key, TOKEN being the last key
ParamsTokenValue == PyDict(<<<<"x", PyStr(TOKEN)>>, <<"TOKEN", PyStr(TOKEN)>>>>)
NewParams == {ParamsWithToken, ParamsNoToken, ParamsNestedToken, ParamsTokenValue,
              PyNone, PyStr("xTOKENy"), PyList(<<PyStr("TOKEN")>>)}
ProcessIds == {"42"}
LogMessages == {"token is abc"}

\* ------------------------------------------------------------ state
VARIABLES
    context,    \* the ambient context: TRACEID and SPANID (Absent: no such key)
    context0,   \* the ambient context as the process received it
    response,   \* self.response of each client (got = FALSE: None)
    _content,   \* self._content of each client
    action,     \* self.action of each client
    sent,       \* number of HTTP requests issued so far
    call,       \* per client: its latest method call and the statement it is at
    pc,         \* "running", "task_error"/"task_success" (at sys.exit), "exited"
    stdout,     \* lines printed to standard output
    exit_code,  \* the process's exit code (-1 while it runs)
    log,        \* records emitted to the "msa-sdk" logger
    returned    \* the latest process_content call: arguments, result, caller's mapping

vars == <<context, context0, response, _content, action, sent, call, pc, stdout,
          exit_code, log, returned>>
clientVars == <<response, _content, action, sent, call>>
taskVars == <<pc, stdout, exit_code, returned>>

\* ------------------------------------------------------------ envelope encoder
\* response = {"wo_status": status, "wo_comment": comment, "wo_newparams": new_params}
Envelope(status, comment, new_params) ==
    PyDict(<<<<"wo_status", PyStr(status)>>, <<"wo_comment", comment>>,
             <<"wo_newparams", new_params>>>>)

\* Lines 71-77 on the objects objs, woToken naming the object the variable
\* woToken refers to: 'TOKEN' in woToken, del woToken['TOKEN'] (which changes
\* that object), json.dumps(woToken, indent=4) and logger.info; each of the
\* first three can raise, and then nothing is logged
LogResponse(objs, woToken) ==
    LET has == Contains(objs[woToken], "TOKEN")
        del == IF has.val THEN Delete(objs[woToken], "TOKEN")
               ELSE Parsed("", objs[woToken])
        after == IF has.err = "" /\ del.err = "" THEN [objs EXCEPT ![woToken] = del.val]
                 ELSE objs
        pretty_json == json_dumps_indent(after[woToken])
        err == IF has.err # "" THEN has.err
               ELSE IF del.err # "" THEN del.err
               ELSE pretty_json.err
    IN [objs |-> after, err |-> err,
        log |-> IF err = "" THEN <<pretty_json.text>> ELSE <<>>]

\* json.dumps(response) at line 79: response refers to the object new_params
\* as it is by then.  ret is the text returned or the exception raised, log
\* the records sent to the logger, params the caller's mapping as the call
\* leaves it.
Encode(status, comment, lr) ==
    [ret |-> IF lr.err # "" THEN Result(lr.err, NoText)
             ELSE json_dumps(Envelope(status, comment, lr.objs.new_params)),
     log |-> lr.log,
     params |-> lr.objs.new_params]

NotLogged(objs) == [objs |-> objs, err |-> "", log |-> <<>>]

\* process_content with woToken = new_params in place of the deep copy: the
\* deletion then acts on the caller's mapping, which the response refers to
process_content_nocopy(status, comment, new_params, log_response) ==
    LET objs == [new_params |-> new_params]
    IN Encode(status, comment,
              IF log_response THEN LogResponse(objs, "new_params") ELSE NotLogged(objs))

\* process_content(status, comment, new_params, log_response).  The objects
\* of the call are the caller's new_params and, with log_response, the deep
\* copy woToken.
process_content(status, comment, new_params, log_response) ==
    LET objs == [new_params |-> new_params, woToken |-> deepcopy(new_params)]
    IN Encode(status, comment,
              IF log_response THEN LogResponse(objs, "woToken") ELSE NotLogged(objs))

\* ------------------------------------------------------------ transport
NoHeaders == [traceparent |-> <<"", Absent, Absent, "">>,
              XB3TraceId |-> Absent, XB3SpanId |-> Absent,
              Authorization |-> "", ContentType |-> "", Accept |-> ""]

NoResponse == [got |-> FALSE, id |-> 0, status |-> 0, text |-> NoText]

\* The content property without the '{}' default
content_no_default(text) == text

\* The content property on a client whose _content is text: '{}' when it is
\* empty
content(text) == IF Len(text) = 0 THEN <<Tok("p", "{"), Tok("p", "}")>> ELSE text

\* check_response() on a client holding resp, with self.action = act and
\* _content = raw: the new _content, and the exception that escapes, if any
\* (_content then stays as it was).  self.response = None has no attribute ok.
check_response(resp, act, raw) ==
    IF ~resp.got THEN [content |-> raw, err |-> "AttributeError"]
    ELSE IF Ok(resp.status) THEN [content |-> raw, err |-> ""]
    ELSE LET json_response == json_loads(resp.text)
             message == Subscript(json_response.val, "message")
             enc == process_content(FAILED, act, message.val, FALSE)
         IN IF json_response.err # "" THEN [content |-> raw, err |-> json_response.err]
            ELSE IF message.err # "" THEN [content |-> raw, err |-> message.err]
            ELSE IF enc.ret.err # "" THEN [content |-> raw, err |-> enc.ret.err]
            ELSE [content |-> enc.ret.text, err |-> ""]

\* The headers each verb starts from
BaseHeaders(verb) ==
    [NoHeaders EXCEPT !.Accept = "application/json",
                      !.Authorization = "Bearer " \o TOKEN,
                      !.ContentType = IF verb \in {"POST", "PUT"}
                                      THEN "application/json" ELSE ""]

\* _call_post without the isinstance check
InvalidPayload_unchecked(verb, data) == FALSE

\* _call_post only: data that is neither None nor a dict raises TypeError, and
\* so does json.dumps of a dict that holds a value it cannot serialize
InvalidPayload(verb, data) ==
    /\ verb = "POST"
    /\ \/ data.t \notin {"none", "dict"}
       \/ json_dumps(data).err # ""

\* A second request after a network failure
Attempts_retry(net) == IF net.err # "" THEN 2 ELSE 1

\* The number of HTTP requests one invocation has issued when requests.post /
\* get / put / delete returns or raises
Attempts(net) == 1

\* A call that stores the text but not the response object
StoreResponse_content_only(c, resp, cr) ==
    /\ response' = response
    /\ _content' = [_content EXCEPT ![c] = cr.content]

\* What a call that received resp stores in the client: self.response, and
\* self._content (the response text, then what check_response makes of it)
StoreResponse(c, resp, cr) ==
    /\ response' = [response EXCEPT ![c] = resp]
    /\ _content' = [_content EXCEPT ![c] = cr.content]

\* A client is used by one thread.  call[c] is the latest call of a public
\* method on client c: at is the statement the call stands at ("idle": no
\* call yet, "done": returned or raised), pair the local t, s of
\* add_trace_headers, read the context value line 272 has read so far,
\* headers the local headers dict, req the number of the request issued.
NoPair == [trace_id |-> Absent, span_id |-> Absent]
NoCall == [at |-> "idle", op |-> "", verb |-> "", data |-> PyNone, req |-> 0,
           reqs |-> 0, headers |-> NoHeaders, raised |-> "", ret |-> PyNone,
           pair |-> NoPair, read |-> Absent]

\* Client c is not inside a call
Returned(c) == call[c].at \in {"idle", "done"}
\* Client c is inside a call that has not issued its request yet
Preparing(c) == call[c].at \notin {"idle", "done", "waiting"}

\* Entry of a transport method on client c: op is the method called, act the
\* value of self.action during the call, data the body passed.  The headers
\* dict is built, and the call stands at the first line of add_trace_headers.
Transport(c, op, verb, act, data) ==
    /\ Returned(c)
    /\ sent + Cardinality({d \in Clients : Preparing(d)}) < MaxCalls
    /\ action' = [action EXCEPT ![c] = act]
    /\ call' = [call EXCEPT ![c] =
                  [NoCall EXCEPT !.at = "check", !.op = op, !.verb = verb,
                                 !.data = data, !.headers = BaseHeaders(verb)]]
    /\ UNCHANGED <<context, context0, response, _content, sent, log, taskVars>>

\* ------------------------------------------------------------ add_trace_headers
\* One step per statement that reads or writes the shared context or calls
\* the logger; between two of them another thread can run.

\* logger.info("Creating traceId: 00-%s-%s-01", t, s)
CreatingLog(t, s) == <<Tok("w", "Creating traceId:"), Tok("w", "00"),
                       Tok("w", ToString(t)), Tok("w", ToString(s)), Tok("w", "01")>>

\* create_trace_id(): the pair of the two random draws
create_trace_id(t, s) == [trace_id |-> t, span_id |-> s]

\* A new pair whatever the context holds
NeedsTrace_always(ctx) == TRUE

\* 'TRACEID' not in context
NeedsTrace(ctx) == ctx.TRACEID = Absent

\* The check replaced by an unconditional creation
T_check_always_create(c) ==
    /\ call[c].at = "check"
    /\ call' = [call EXCEPT ![c].at = "create"]
    /\ UNCHANGED <<context, context0, response, _content, action, sent, log, taskVars>>

\* if 'TRACEID' not in context:
T_check(c) ==
    /\ call[c].at = "check"
    /\ call' = [call EXCEPT ![c].at = IF NeedsTrace(context) THEN "create"
                                      ELSE "tp_trace"]
    /\ UNCHANGED <<context, context0, response, _content, action, sent, log, taskVars>>

\* t, s = self.create_trace_id()
T_create(c, t, s) ==
    /\ call[c].at = "create"
    /\ call' = [call EXCEPT ![c].at = "set_trace", ![c].pair = create_trace_id(t, s)]
    /\ UNCHANGED <<context, context0, response, _content, action, sent, log, taskVars>>

\* context['TRACEID'] = t
T_set_trace(c) ==
    /\ call[c].at = "set_trace"
    /\ context' = [context EXCEPT !.TRACEID = call[c].pair.trace_id]
    /\ call' = [call EXCEPT ![c].at = "set_span"]
    /\ UNCHANGED <<context0, response, _content, action, sent, log, taskVars>>

\* context['SPANID'] = s
T_set_span(c) ==
    /\ call[c].at = "set_span"
    /\ context' = [context EXCEPT !.SPANID = call[c].pair.span_id]
    /\ call' = [call EXCEPT ![c].at = "log"]
    /\ UNCHANGED <<context0, response, _content, action, sent, log, taskVars>>

\* logger.info("Creating traceId: 00-%s-%s-01", t, s): the thread's own pair,
\* which it does not use again
T_log(c) ==
    /\ call[c].at = "log"
    /\ log' = Append(log, CreatingLog(call[c].pair.trace_id, call[c].pair.span_id))
    /\ call' = [call EXCEPT ![c].at = "tp_trace", ![c].pair = NoPair]
    /\ UNCHANGED <<context, context0, response, _content, action, sent, taskVars>>

\* context[key] for a key the context lacks: KeyError ends the call
KeyError(c) == [call[c] EXCEPT !.at = "done", !.raised = "KeyError", !.read = Absent]

\* The statement at of the call on client c reads the context and leaves the
\* call as k
T_read(c, at, k) ==
    /\ call[c].at = at
    /\ call' = [call EXCEPT ![c] = k]
    /\ UNCHANGED <<context, context0, response, _content, action, sent, log, taskVars>>

\* headers['traceparent'] = '00-{}-{}-01'.format(context['TRACEID'], context['SPANID'])
\* The two reads are evaluated one after the other; the headers dict is
\* written when both have succeeded.
T_tp_trace(c) ==
    T_read(c, "tp_trace",
           IF context.TRACEID = Absent THEN KeyError(c)
           ELSE [call[c] EXCEPT !.at = "tp_span", !.read = context.TRACEID])
T_tp_span(c) ==
    T_read(c, "tp_span",
           IF context.SPANID = Absent THEN KeyError(c)
           ELSE [call[c] EXCEPT !.at = "b3_trace", !.read = Absent,
                                !.headers.traceparent =
                                    <<"00", call[c].read, context.SPANID, "01">>])
\* headers['X-B3-TraceId'] = context['TRACEID']
T_b3_trace(c) ==
    T_read(c, "b3_trace",
           IF context.TRACEID = Absent THEN KeyError(c)
           ELSE [call[c] EXCEPT !.at = "b3_span",
                                !.headers.XB3TraceId = context.TRACEID])
\* headers['X-B3-SpanId'] = context['SPANID']; add_trace_headers returns, to
\* the transport method that called it or to the caller
T_b3_span(c) ==
    T_read(c, "b3_span",
           IF context.SPANID = Absent THEN KeyError(c)
           ELSE [call[c] EXCEPT !.at = IF call[c].verb = "" THEN "done" ELSE "issue",
                                !.headers.XB3SpanId = context.SPANID])

\* ------------------------------------------------------------ request and response
\* The transport method after add_trace_headers, up to the point where it
\* blocks in requests.post / get / put / delete: the payload check of
\* _call_post raises TypeError, otherwise the request goes out.
Issue(c) ==
    LET bad == InvalidPayload(call[c].verb, call[c].data)
    IN /\ call[c].at = "issue"
       /\ sent' = IF bad THEN sent ELSE sent + 1
       /\ call' = [call EXCEPT ![c] =
                     IF bad THEN [@ EXCEPT !.at = "done", !.raised = "TypeError"]
                     ELSE [@ EXCEPT !.at = "waiting", !.req = sent + 1, !.reqs = 1]]
       /\ UNCHANGED <<context, context0, response, _content, action, log, taskVars>>

\* What the Order method op does after its transport call returned, on the
\* content the call left: the value it returns, or the exception raised
Returns(op, text) ==
    CASE op \in {"command_objects_instances", "command_objects_instances_by_id"} ->
            json_loads(text)
      [] op = "command_get_deployment_settings_id" ->
            LET doc == json_loads(text)
                config_profile_device == Subscript(doc.val, "ConfigProfileByDevice")
            IN IF doc.err # "" THEN doc
               ELSE IF config_profile_device.err # "" THEN config_profile_device
               ELSE int(config_profile_device.val)
      [] OTHER -> Parsed("", PyNone)

\* requests.post / get / put / delete returns or raises in the call client c
\* is blocked in, and the call runs to its end: self.response, self._content,
\* check_response, and what the Order method does with the content.
Respond(c, net) ==
    LET k == call[c]
        n == Attempts(net)
        resp == [got |-> TRUE, id |-> k.req, status |-> net.status, text |-> net.text]
        cr == check_response(resp, action[c], net.text)
        rv == Returns(k.op, content(cr.content))
    IN /\ k.at = "waiting"
       /\ sent' = sent + (n - 1)
       /\ IF net.err = "" THEN StoreResponse(c, resp, cr)
          ELSE UNCHANGED <<response, _content>>
       /\ call' = [call EXCEPT ![c] =
                     [k EXCEPT !.at = "done",
                               !.reqs = n,
                               !.raised = IF net.err # "" THEN net.err
                                          ELSE IF cr.err # "" THEN cr.err
                                          ELSE rv.err,
                               !.ret = IF net.err = "" /\ cr.err = "" /\ rv.err = ""
                                       THEN rv.val ELSE PyNone]]
       /\ UNCHANGED <<context, context0, action, log, taskVars>>

_call_post(c, data) == Transport(c, "_call_post", "POST", action[c], data)
_call_get(c) == Transport(c, "_call_get", "GET", action[c], PyNone)
_call_put(c, data) == Transport(c, "_call_put", "PUT", action[c], data)
_call_delete(c) == Transport(c, "_call_delete", "DELETE", action[c], PyNone)

\* A caller's direct use of check_response() on a client that is not inside a
\* call
CheckResponse(c) ==
    LET cr == check_response(response[c], action[c], _content[c])
    IN /\ Returned(c)
       /\ _content' = [_content EXCEPT ![c] = cr.content]
       /\ call' = [call EXCEPT ![c] =
                     [NoCall EXCEPT !.at = "done", !.op = "check_response",
                                    !.raised = cr.err]]
       /\ UNCHANGED <<context, context0, response, action, sent, log, taskVars>>

\* A caller's direct use of add_trace_headers(headers) with an empty headers
\* dict: the call stands at its first line
AddTraceHeaders(c) ==
    /\ Returned(c)
    /\ call' = [call EXCEPT ![c] =
                  [NoCall EXCEPT !.at = "check", !.op = "add_trace_headers"]]
    /\ UNCHANGED <<context, context0, response, _content, action, sent, log, taskVars>>

\* ------------------------------------------------------------ Order
\* Each method sets self.action (and self.path), then makes its transport
\* call; what follows the call is in Returns.
command_execute(c, params) ==
    Transport(c, "command_execute", "POST", PyStr("Command execute"), params)

command_generate_configuration(c, params) ==
    Transport(c, "command_generate_configuration", "POST",
              PyStr("Command generate configuration"), params)

command_synchronize(c) ==
    Transport(c, "command_synchronize", "POST", PyStr("Command synchronize"), PyNone)

command_synchronizeOneOrMoreObjectsFromDevice(c, mservice_uris) ==
    Transport(c, "command_synchronizeOneOrMoreObjectsFromDevice", "POST",
              PyStr("Command synchronize"),
              PyDict(<<<<"microServiceUris", mservice_uris>>>>))

command_call(c, params) ==
    Transport(c, "command_call", "POST", PyStr("Call command"), params)

command_objects_all(c) ==
    Transport(c, "command_objects_all", "GET", PyStr("Get Microservices"), PyNone)

command_objects_instances(c) ==
    Transport(c, "command_objects_instances", "GET",
              PyStr("Get Microservice Instances"), PyNone)

command_objects_instances_by_id(c) ==
    Transport(c, "command_objects_instances_by_id", "GET",
              PyStr("Get Microservice Object Details"), PyNone)

command_get_deployment_settings_id(c) ==
    Transport(c, "command_get_deployment_settings_id", "GET",
              PyStr("Get deployment settings ID"), PyNone)

\* ------------------------------------------------------------ encoder and task reporter
NoReturn == [status |-> "", comment |-> PyNone, new_params |-> PyNone,
             log_response |-> FALSE, ret |-> Result("", NoText), params |-> PyNone,
             logged |-> <<>>]

Call(status, comment, new_params, log_response, r) ==
    [status |-> status, comment |-> comment, new_params |-> new_params,
     log_response |-> log_response, ret |-> r.ret, params |-> r.params,
     logged |-> r.log]

\* A caller's direct use of process_content
ProcessContent(status, comment, new_params, log_response) ==
    LET r == process_content(status, comment, new_params, log_response)
    IN /\ pc = "running"
       /\ Len(log) + Len(r.log) <= MaxLog
       /\ log' = log \o r.log
       /\ returned' = Call(status, comment, new_params, log_response, r)
       /\ UNCHANGED <<context, context0, clientVars, pc, stdout, exit_code>>

\* log_to_process_file(processId, log_message): the message goes to the
\* "msa-sdk" logger as it is, and True is returned
log_to_process_file(processId, log_message) ==
    /\ pc = "running"
    /\ Len(log) < MaxLog
    /\ log' = Append(log, <<Tok("w", log_message)>>)
    /\ UNCHANGED <<context, context0, clientVars, taskVars>>

\* print(cls.process_content(status, ...)): the process then stands at the
\* sys.exit line of the reporter.  An exception process_content raises leaves
\* the reporter before print; nothing catches it, and the interpreter ends
\* the process with exit code 1.
TaskPrint(status, at, comment, ctx, log_response) ==
    LET r == process_content(status, comment, ctx, log_response)
    IN /\ pc = "running"
       /\ log' = log \o r.log
       /\ returned' = Call(status, comment, ctx, log_response, r)
       /\ IF r.ret.err = ""
          THEN /\ stdout' = Append(stdout, r.ret.text)
               /\ pc' = at
               /\ UNCHANGED exit_code
          ELSE /\ pc' = "exited"
               /\ exit_code' = 1
               /\ UNCHANGED stdout
       /\ UNCHANGED <<context, context0, clientVars>>

task_error(comment, ctx, log_response) ==
    TaskPrint(FAILED, "task_error", comment, ctx, log_response)

task_success(comment, ctx, log_response) ==
    TaskPrint(ENDED, "task_success", comment, ctx, log_response)

\* sys.exit(0) at both places
ExitCodeAlwaysZero(at) == 0

\* The code sys.exit is called with at each of the two places
ExitCodeAt(at) == IF at = "task_error" THEN 1 ELSE 0

\* sys.exit(1) in task_error, sys.exit(0) in task_success
sys_exit ==
    /\ pc \in {"task_error", "task_success"}
    /\ exit_code' = ExitCodeAt(pc)
    /\ pc' = "exited"
    /\ UNCHANGED <<context, context0, clientVars, stdout, log, returned>>

\* ------------------------------------------------------------ specifications
\* The ambient context arrives without trace ids, or with the pair the
\* orchestrator passed.
NoContext == [TRACEID |-> Absent, SPANID |-> Absent]
GivenContext == [TRACEID |-> 1, SPANID |-> 1]
InitContexts == {NoContext, GivenContext}

\* The state after the clients are constructed (__init__)
InitClients ==
    /\ response = [c \in Clients |-> NoResponse]
    /\ _content = [c \in Clients |-> NoText]
    /\ action = [c \in Clients |-> PyClass]
    /\ sent = 0
    /\ call = [c \in Clients |-> NoCall]

InitTask ==
    /\ pc = "running"
    /\ stdout = <<>>
    /\ exit_code = -1
    /\ log = <<>>
    /\ returned = NoReturn

Init ==
    /\ context \in InitContexts
    /\ context0 = context
    /\ InitClients /\ InitTask

\* The statements of a call under way on client c
Statement(c) ==
    \/ T_check(c)
    \/ \E t \in RandIds, s \in RandIds : T_create(c, t, s)
    \/ T_set_trace(c)
    \/ T_set_span(c)
    \/ T_log(c)
    \/ T_tp_trace(c)
    \/ T_tp_span(c)
    \/ T_b3_trace(c)
    \/ T_b3_span(c)
    \/ Issue(c)

\* No client is inside a call: one thread uses the clients
OneThread == \A c \in Clients : Returned(c)

\* One thread that makes a series of transport calls on two clients: a call
\* starts when the call before it has returned or raised
Next ==
    \/ \E c \in Clients, data \in PostData : OneThread /\ _call_post(c, data)
    \/ \E c \in Clients : OneThread /\ _call_get(c)
    \/ \E c \in Clients, data \in PutData : OneThread /\ _call_put(c, data)
    \/ \E c \in Clients : OneThread /\ _call_delete(c)
    \/ \E c \in Clients : Statement(c)
    \/ \E c \in Clients, net \in NetOutcomes : Respond(c, net)

Spec == Init /\ [][Next]_vars

\* One Order object used by one thread: its nine commands and the public
\* methods it inherits
NextOrder ==
    \/ \E c \in Orders, params \in OrderParams : command_execute(c, params)
    \/ \E c \in Orders : command_generate_configuration(c, ParamsDict)
    \/ \E c \in Orders : command_synchronize(c)
    \/ \E c \in Orders : command_synchronizeOneOrMoreObjectsFromDevice(c, ServiceUris)
    \/ \E c \in Orders : command_call(c, ParamsDict)
    \/ \E c \in Orders : command_objects_all(c)
    \/ \E c \in Orders : command_objects_instances(c)
    \/ \E c \in Orders : command_objects_instances_by_id(c)
    \/ \E c \in Orders : command_get_deployment_settings_id(c)
    \/ \E c \in Orders : Statement(c)
    \/ \E c \in Orders, net \in OrderOutcomes : Respond(c, net)
    \/ \E c \in Orders : CheckResponse(c)
    \/ \E c \in Orders : AddTraceHeaders(c)

SpecOrder == Init /\ [][NextOrder]_vars

\* Client c has not been used yet
FirstCall(c) == call[c].at = "idle"

\* Two threads on the shared context, one client each, that each make their
\* first transport call: the statements of the two calls interleave, and the
\* call of one thread can start and end while the other waits for its
\* response
NextThreads ==
    \/ \E c \in Clients, data \in PostData : FirstCall(c) /\ _call_post(c, data)
    \/ \E c \in Clients : FirstCall(c) /\ _call_get(c)
    \/ \E c \in Clients, data \in PutData : FirstCall(c) /\ _call_put(c, data)
    \/ \E c \in Clients : FirstCall(c) /\ _call_delete(c)
    \/ \E c \in Clients : Statement(c)
    \/ \E c \in Clients, net \in ThreadOutcomes : Respond(c, net)

SpecThreads == Init /\ [][NextThreads]_vars

\* The envelope encoder, the logger and the task reporter
NextTask ==
    \/ \E st \in Statuses, cm \in Comments, np \in NewParams, lg \in BOOLEAN :
          ProcessContent(st, cm, np, lg)
    \/ \E processId \in ProcessIds, msg \in LogMessages :
          log_to_process_file(processId, msg)
    \/ \E cm \in Comments, np \in NewParams, lg \in BOOLEAN :
          \/ task_error(cm, np, lg)
          \/ task_success(cm, np, lg)
    \/ sys_exit

SpecTask == Init /\ [][NextTask]_vars

\* ------------------------------------------------------------ reading an envelope
NotAnEnvelope == [ok |-> FALSE, wo_status |-> PyNone, wo_comment |-> PyNone,
                  wo_newparams |-> PyNone]

\* json.loads of a text that is an envelope: an object whose keys are
\* wo_status, wo_comment and wo_newparams, in that order
Decode(text) ==
    LET doc == json_loads(text)
    IN IF /\ doc.err = ""
          /\ doc.val.t = "dict"
          /\ Len(doc.val.d) = 3
          /\ doc.val.d[1][1] = "wo_status"
          /\ doc.val.d[2][1] = "wo_comment"
          /\ doc.val.d[3][1] = "wo_newparams"
       THEN [ok |-> TRUE, wo_status |-> doc.val.d[1][2],
             wo_comment |-> doc.val.d[2][2], wo_newparams |-> doc.val.d[3][2]]
       ELSE NotAnEnvelope

\* ------------------------------------------------------------ the latest call
\* The latest transport call on client c has finished, by returning or by
\* raising
Finished(c) == call[c].at = "done" /\ call[c].verb # ""

\* The latest transport call on client c has finished and its request
\* received a response
Received(c) ==
    /\ call[c].at = "done"
    /\ call[c].reqs >= 1
    /\ call[c].raised # "RequestException"

\* The response client c holds is the one its latest request received
Fresh(c) == response[c].got /\ response[c].id = call[c].req

\* The body of the response client c holds is JSON with a message field
HasMessage(c) ==
    /\ json_loads(response[c].text).err = ""
    /\ Subscript(json_loads(response[c].text).val, "message").err = ""
MessageOf(c) == Subscript(json_loads(response[c].text).val, "message").val

\* A status in 200..299
Is2xx(status) == status >= 200 /\ status < 300


\* ------------------------------------------------------------ task completion protocol
\* Standard output holds exactly one line, the envelope of the given status
\* with the reporter's comment and context
PrintedOne(st) ==
    /\ Len(stdout) = 1
    /\ Decode(stdout[1]).ok
    /\ Decode(stdout[1]).wo_status = PyStr(st)
    /\ Decode(stdout[1]).wo_comment = returned.comment
    /\ Decode(stdout[1]).wo_newparams = returned.new_params

\* The reporter was called with a string comment and a mapping as context
ReporterArgs == returned.comment.t = "str" /\ returned.new_params.t = "dict"

\* C1: task_success(comment, ctx), for a string comment and a mapping ctx,
\* prints exactly one envelope (ENDED, comment, ctx) and then exits with code
\* 0; task_error does the same with FAILED and code 1.  The envelope is on
\* standard output before the process terminates, and nothing else is ever
\* printed.
C1_TaskProtocol ==
    /\ Len(stdout) <= 1
    /\ pc = "running" => stdout = <<>> /\ exit_code = -1
    /\ pc = "task_success" => PrintedOne(ENDED) /\ exit_code = -1
    /\ pc = "task_error" => PrintedOne(FAILED) /\ exit_code = -1
    /\ (pc = "exited" /\ ReporterArgs) =>
          \/ returned.status = ENDED /\ exit_code = 0 /\ PrintedOne(ENDED)
          \/ returned.status = FAILED /\ exit_code = 1 /\ PrintedOne(FAILED)

C1_Witness ==
    /\ pc = "exited"
    /\ exit_code = 1
    /\ returned.status = FAILED
    /\ returned.comment = PyStr("done")
    /\ returned.new_params = ParamsTokenValue

\* ------------------------------------------------------------ response classification
\* C2: after a call that received a non-2xx response which requests reports
\* as not ok and whose JSON body has a message field m, content decodes to a
\* FAILED envelope whose wo_comment is m and whose wo_newparams is the failing
\* action's name.
C2_MessageAsComment ==
    \A c \in Clients :
        (/\ Received(c) /\ Fresh(c) /\ HasMessage(c)
         /\ ~Is2xx(response[c].status) /\ ~Ok(response[c].status)) =>
            /\ Decode(content(_content[c])).ok
            /\ Decode(content(_content[c])).wo_status = PyStr(FAILED)
            /\ Decode(content(_content[c])).wo_comment = MessageOf(c)
            /\ Decode(content(_content[c])).wo_newparams = action[c]

\* C5 as claimed: after a call that received a 2xx response, content equals
\* the raw response text, the empty text included.
C5_RawVerbatim ==
    \A c \in Clients :
        (Received(c) /\ Fresh(c) /\ Is2xx(response[c].status)) =>
            content(_content[c]) = response[c].text

\* C5 as amended: after a call that received a 2xx response, content equals
\* the raw response text when that text is not empty, and is '{}' when it is
\* empty; in neither case is it wrapped in an envelope.
C5_RawUnlessEmpty ==
    \A c \in Clients :
        (Received(c) /\ Fresh(c) /\ Is2xx(response[c].status)) =>
            /\ call[c].raised = ""
            /\ _content[c] = response[c].text
            /\ response[c].text # NoText => content(_content[c]) = response[c].text
            /\ response[c].text = NoText =>
                  content(_content[c]) = <<Tok("p", "{"), Tok("p", "}")>>
            /\ ~Decode(content(_content[c])).ok

C5_Witness ==
    \E c \in Clients :
        /\ Received(c) /\ Fresh(c) /\ Is2xx(response[c].status)
        /\ response[c].text = NoText
        /\ response[c].id = 2
        /\ \E d \in Clients \ {c} : response[d].got /\ response[d].status = 404

\* C6: after a call whose status is non-2xx, whatever the body, content is a
\* FAILED envelope and not the raw response text.
C6_FailureNormalized ==
    \A c \in Clients :
        (Received(c) /\ Fresh(c) /\ ~Is2xx(response[c].status)) =>
            /\ Decode(content(_content[c])).ok
            /\ Decode(content(_content[c])).wo_status = PyStr(FAILED)
            /\ content(_content[c]) # response[c].text

\* ------------------------------------------------------------ trace identity
TraceHeadersOf(ctx) ==
    [traceparent |-> <<"00", ctx.TRACEID, ctx.SPANID, "01">>,
     XB3TraceId |-> ctx.TRACEID, XB3SpanId |-> ctx.SPANID]
TraceHeadersIn(h) ==
    [traceparent |-> h.traceparent, XB3TraceId |-> h.XB3TraceId,
     XB3SpanId |-> h.XB3SpanId]

\* C3: in a sequential series of transport calls of any verbs on two
\* clients, once the context holds a trace id and span id no call changes
\* them, one pair at most is ever created, every request's traceparent,
\* X-B3-TraceId and X-B3-SpanId carry the pair the context holds, and a trace
\* id the context held before the first call stays in use.
C3_TraceOnce ==
    [][/\ (context.TRACEID # Absent /\ context.SPANID # Absent) => context' = context
       /\ Len(log') <= 1
       /\ \A c \in Clients : call'[c].reqs >= 1 =>
             /\ context'.TRACEID # Absent
             /\ TraceHeadersIn(call'[c].headers) = TraceHeadersOf(context')
       /\ context0.TRACEID # Absent => context' = context0 /\ log' = <<>>]_vars

C3_Witness ==
    /\ context0 = NoContext
    /\ sent = 2
    /\ Len(log) = 1
    /\ response["c1"].got /\ response["c2"].got
    /\ call["c1"].verb = "DELETE" /\ call["c2"].verb = "PUT"
    /\ \A c \in Clients : TraceHeadersIn(call[c].headers) = TraceHeadersOf(context)

\* ------------------------------------------------------------ transport
\* C4: a POST whose body is neither absent nor a mapping issues no HTTP
\* request and ends by raising TypeError, whatever state the client is in.
C4_InvalidPayload ==
    \A c \in Clients :
        (call[c].verb = "POST" /\ call[c].data.t \notin {"none", "dict"}) =>
            /\ call[c].at # "waiting"
            /\ call[c].reqs = 0
            /\ call[c].req = 0
            /\ call[c].at = "done" => call[c].raised = "TypeError"

C4_Witness ==
    \E c \in Clients :
        /\ call[c].verb = "POST"
        /\ call[c].data = PyStr("object_id=12")
        /\ call[c].at = "done"
        /\ call[c].raised = "TypeError"
        /\ call[c].reqs = 0
        /\ sent = 1
        /\ response[c].got

\* C8: an invocation issues at most one HTTP request; after a network failure
\* the exception reaches the caller with one request issued, and a non-2xx
\* response is likewise the outcome of a single request.
C8_AtMostOnce ==
    /\ \A c \in Clients :
          /\ call[c].reqs <= 1
          /\ call[c].raised = "RequestException" => call[c].reqs = 1
          /\ (Received(c) /\ ~Is2xx(response[c].status)) => call[c].reqs = 1
          /\ response[c].got => response[c].id <= sent
          /\ call[c].req <= sent
    /\ \A c \in Clients, d \in Clients :
          (c # d /\ call[c].req # 0) => call[c].req # call[d].req

C8_Witness ==
    \E c \in Clients :
        /\ call[c].at = "done"
        /\ call[c].raised = "RequestException"
        /\ call[c].reqs = 1
        /\ call[c].req = 2
        /\ sent = 2

\* The response client c holds comes from an earlier call than its latest one
Stale(c) == response[c].got /\ response[c].id # call[c].req

\* _content of client c is the raw text of the response it holds, or the
\* FAILED envelope check_response built from it
ContentFromResponse(c) ==
    \/ _content[c] = response[c].text
    \/ /\ ~Ok(response[c].status)
       /\ HasMessage(c)
       /\ Decode(_content[c]).ok
       /\ Decode(_content[c]).wo_status = PyStr(FAILED)
       /\ Decode(_content[c]).wo_comment = action[c]
       /\ Decode(_content[c]).wo_newparams = MessageOf(c)

\* C9 as claimed: once the latest call on a client has finished, normally or
\* by raising, the client's response and content are those of that call and
\* never those of an earlier one.
C9_NoHistory ==
    \A c \in Clients : Finished(c) => ~Stale(c)

\* C9 as amended: once the latest call on a client has received an HTTP
\* response, the client's response is that response and its content comes
\* from it.
C9_LatestReceived ==
    \A c \in Clients :
        Received(c) => Fresh(c) /\ ~Stale(c) /\ ContentFromResponse(c)

C9_Witness ==
    \E c \in Clients :
        /\ Received(c)
        /\ response[c].id = 2
        /\ response[c].status = 404
        /\ call[c].op = "command_objects_instances"
        /\ Decode(_content[c]).ok
        /\ call[c].ret.t = "dict"

\* ------------------------------------------------------------ encoder
\* The name TOKEN, as a key or in a string, occurs in a JSON text
TokenIn(text) ==
    \E j \in 1..Len(text) : text[j][1] = "s" /\ StrContains(text[j][2], "TOKEN")
\* The str s occurs in a string of a JSON text
StringIn(text, s) ==
    \E j \in 1..Len(text) : text[j][1] = "s" /\ StrContains(text[j][2], s)

RECURSIVE Holds(_, _)
\* The str s occurs in a key or a string of the value v, at any depth
Holds(v, s) ==
    CASE v.t = "str" -> StrContains(v.s, s)
      [] v.t \in {"dict", "list"} ->
            \E i \in 1..Len(v.d) :
                (v.t = "dict" /\ StrContains(v.d[i][1], s)) \/ Holds(v.d[i][2], s)
      [] OTHER -> FALSE

\* process_content has been called with logging enabled and a mapping that
\* holds a TOKEN entry
LoggedWithToken ==
    /\ returned.log_response
    /\ returned.new_params.t = "dict"
    /\ HasKey(returned.new_params, "TOKEN")
TokenValue == GetKey(returned.new_params, "TOKEN").s
\* The text process_content returns for the same arguments with logging
\* disabled
Unlogged ==
    process_content(returned.status, returned.comment, returned.new_params, FALSE).ret

\* C7 as claimed: process_content with logging enabled and a new_params
\* mapping holding TOKEN never sends the token value to the logger, leaves
\* the caller's mapping as it was, and returns the text it returns with
\* logging disabled, TOKEN included.
C7_TokenNeverLogged ==
    LoggedWithToken =>
          /\ \A i \in 1..Len(returned.logged) : ~StringIn(returned.logged[i], TokenValue)
          /\ returned.params = returned.new_params
          /\ returned.ret = Unlogged
          /\ returned.ret.err = "" => TokenIn(returned.ret.text)

\* C7 as amended: process_content with logging enabled and a new_params
\* mapping holding TOKEN logs one record, the mapping without its top-level
\* TOKEN entry and with every other entry as it is, so that the token value
\* reaches the logger exactly when the mapping holds it in another place;
\* the caller's mapping is left as it was, and the text returned is the text
\* returned with logging disabled, the envelope of the whole mapping, TOKEN
\* included.
C7_TokenRedacted ==
    LoggedWithToken =>
          /\ Len(returned.logged) = 1
          /\ json_loads(returned.logged[1]).err = ""
          /\ json_loads(returned.logged[1]).val = DelKey(returned.new_params, "TOKEN")
          /\ ~HasKey(json_loads(returned.logged[1]).val, "TOKEN")
          /\ StringIn(returned.logged[1], TokenValue)
                <=> Holds(DelKey(returned.new_params, "TOKEN"), TokenValue)
          /\ returned.params = returned.new_params
          /\ returned.ret = Unlogged
          /\ returned.ret.err = "" =>
                /\ Decode(returned.ret.text).ok
                /\ Decode(returned.ret.text).wo_newparams = returned.new_params
                /\ TokenIn(returned.ret.text)
                /\ StringIn(returned.ret.text, TokenValue)

\* The mapping holds the token under TOKEN and under a nested TOKEN key: the
\* record logged has lost the first and shows the second
C7_Witness ==
    /\ LoggedWithToken
    /\ returned.new_params = ParamsNestedToken
    /\ returned.status = WARNING
    /\ returned.ret.err = ""
    /\ Len(returned.logged) = 1
    /\ StringIn(returned.logged[1], TOKEN)
    /\ Len(log) = 2
    /\ log[1] = <<Tok("w", "token is abc")>>
    /\ pc = "running"

\* ------------------------------------------------------------ two threads
\* The call of client c has sent its request, with the headers it built
Emitted(c) == call[c].reqs >= 1
PairOf(ctx) == [trace_id |-> ctx.TRACEID, span_id |-> ctx.SPANID]
\* The pair a header set carries in traceparent
PairIn(h) == [trace_id |-> h.traceparent[2], span_id |-> h.traceparent[3]]
\* The pairs that exist: those create_trace_id returned (held by a call or
\* logged), and the one given
Generated ==
    {p \in [trace_id : RandIds, span_id : RandIds] :
        \/ \E c \in Clients : call[c].pair = p
        \/ \E i \in 1..Len(log) : log[i] = CreatingLog(p.trace_id, p.span_id)}
    \cup (IF context0.TRACEID # Absent THEN {PairOf(context0)} ELSE {})

\* C10 as claimed: when two threads make their first call on a shared context
\* that holds no trace id, every header set emitted carries a pair one
\* create_trace_id call generated, both header sets carry the same pair, and
\* the context never holds the trace id of one generation with the span id of
\* another.
C10_NoMixing ==
    context0 = NoContext =>
    /\ \A c \in Clients : Emitted(c) =>
          /\ PairIn(call[c].headers) \in Generated
          /\ call[c].headers.XB3TraceId = PairIn(call[c].headers).trace_id
          /\ call[c].headers.XB3SpanId = PairIn(call[c].headers).span_id
    /\ \A a \in Clients, b \in Clients :
          Emitted(a) /\ Emitted(b) =>
              TraceHeadersIn(call[a].headers) = TraceHeadersIn(call[b].headers)
    /\ (context.TRACEID # Absent /\ context.SPANID # Absent) => PairOf(context) \in Generated

\* C10 as amended: when the shared context already holds a trace id and span
\* id before the two threads start their calls, no thread generates a pair,
\* the context is never changed, no call fails on a missing context key, and
\* every header set emitted carries that pair, so both calls carry the same
\* one.
C10_GivenPair ==
    context0.TRACEID # Absent =>
        /\ context = context0
        /\ log = <<>>
        /\ \A c \in Clients :
              /\ call[c].pair = NoPair
              /\ call[c].at \notin {"create", "set_trace", "set_span", "log"}
              /\ call[c].raised # "KeyError"
              /\ Emitted(c) => TraceHeadersIn(call[c].headers) = TraceHeadersOf(context0)

C10_Witness ==
    /\ context0 = GivenContext
    /\ \A c \in Clients : Emitted(c)

====
